---- MODULE Spec2Model ----
(***************************************************************************)
(* Registration allocation core of birdie-buddies-backend: the allocator,  *)
(* guest add / guest edit, waitlist promotion, cancellation, the session   *)
(* lifecycle, the ledger/wallet engine and the registration ingress queue. *)
(*                                                                         *)
(* One session is modelled (every query of the services filters on one     *)
(* session_id; a session is created `scheduled` without pre-registrations).*)
(* Every service runs in one SERIALIZABLE transaction that locks the       *)
(* session row first, so a committed transaction is one atomic action; a   *)
(* call that raises rolls back and is a stuttering step.                   *)
(* Wall-clock time is the phase of `now` relative to the session's         *)
(* starts_at in the session's timezone.                                    *)
(***************************************************************************)
EXTENDS Integers, Sequences, FiniteSets, TLC

\* ------------------------------------------------------------------ bounds
MaxRegs     == 3      \* registration rows ever created for the session
MaxCapacity == 2      \* largest capacity an admin sets
MaxGroupRegs == 4     \* registration rows of the larger session: a host and three guests
GroupCapacity == 3    \* capacity of the larger session, above every capacity an admin sets
Fee         == 3      \* the session's fee_cents
MaxProcs    == 2      \* concurrent submissions to the registration endpoint
MaxPromote  == 1      \* promotion messages waiting in the stream
MaxEvents   == 3      \* outbox events ever committed
MaxAttempts == 2      \* failed publish attempts per outbox event

Users    == {"u1", "u2"}
Names    == {"a"}
Blank    == " "
\* deposits an admin posts: <<user, amount_cents, Idempotency-Key>>
\* (top-ups, a zero amount, and a negative adjustment that reuses a key)
DepositInputs == {<<"u1", 3 * Fee, 1>>, <<"u2", 2 * Fee, 2>>, <<"u2", -1, 2>>, <<"u1", 0, 1>>}
\* principals calling the user endpoints: <<user, is_admin>>
Callers == {<<"u1", FALSE>>, <<"u2", TRUE>>}
\* guest_names lists a client submits
GuestInputs == {<<>>, <<Blank, "a">>, <<"a", "b", "a">>}

NULL == 0             \* SQL NULL of waitlist_pos / group_key

\* phases of the clock relative to the session
BeforeDay == 0        \* before local 00:00 of the session's start day
SameDay   == 1        \* local start day, before starts_at
Started   == 2        \* starts_at <= now < starts_at + 2h
Past2h    == 3        \* starts_at + 2h <= now < starts_at + 3h
Past3h    == 4        \* starts_at + 3h <= now

VARIABLES
    now,        \* clock phase
    sess,       \* the sessions row: [capacity, status]
    regs,       \* registrations table: sequence of rows, id = index
    wallet,     \* wallets table: user -> [posted_cents, holds_cents]
    ledger,     \* ledger_entries table: set of rows
    promote_stream, \* promote:{S}:stream: messages not yet delivered to the promotion worker
    redis,      \* registration ingress keys: idempotency map, request status, stream, backlog
    http,       \* position of each request being handled by POST /sessions/{id}/register
    worker,     \* position of the registration worker
    alloc_runs, \* request ids the worker ran the allocator for, in order
    txns,       \* open transactions of concurrent POST /admin/deposits requests
    outbox,     \* events_outbox rows and the events published on the realtime bus
    closer      \* session closer: the lock:session_closer key and each replica's position

ingress == <<redis, http, worker, alloc_runs, txns, closer>>
vars == <<now, sess, regs, wallet, ledger, promote_stream, redis, http, worker, alloc_runs, txns, outbox,
          closer>>

\* rows explored for the session: the larger session gets room for one host's whole group
RegsLimit == IF sess.capacity = GroupCapacity THEN MaxGroupRegs ELSE MaxRegs

\* add_outbox_event calls of a transaction that commits: evts is the sequence of
\* <<payload type, registration_id>> written, in call order. The log keeps one
\* record per event of a registration (n counts repeats) and one per type of
\* session event; it is kept by the specifications that start with events
\* switched on.
RECURSIVE Emit(_, _)
Emit(ob, evts) ==
    IF evts = <<>> \/ ~ob.events THEN ob
    ELSE LET e == Head(evts)
             n == IF e[2] = 0 THEN 1
                  ELSE 1 + Cardinality({x \in ob.log : x.type = e[1] /\ x.reg = e[2]})
         IN  Emit([ob EXCEPT !.log = @ \cup {[type |-> e[1], reg |-> e[2], n |-> n]}], Tail(evts))

\* ------------------------------------------------------------------ helpers
Max(a, b) == IF a >= b THEN a ELSE b
Min(a, b) == IF a <= b THEN a ELSE b

RECURSIVE SumOver(_, _)
SumOver(S, f) ==
    IF S = {} THEN 0
    ELSE LET x == CHOOSE y \in S : TRUE IN f[x] + SumOver(S \ {x}, f)

\* select coalesce(sum(seats),0) where state = 'confirmed'
ConfirmedSeats(rs) ==
    SumOver({i \in DOMAIN rs : rs[i].state = "confirmed"}, [i \in DOMAIN rs |-> rs[i].seats])

\* ------------------------------------------------------------------ ledger / wallet engine
\* _KIND_STATUS
KIND_STATUS ==
    [hold |-> "held", hold_release |-> "posted", deposit_in |-> "posted",
     refund |-> "posted", fee_capture |-> "posted", penalty |-> "posted"]

\* _KIND_SIGN of repos/ledger_repo.py: +1 amount > 0, -1 amount < 0, 0 any
KIND_SIGN ==
    [hold |-> 1, hold_release |-> -1, deposit_in |-> 0,
     refund |-> 1, fee_capture |-> -1, penalty |-> -1]

\* the sign validation that raises ValueError
SignOk(kind, amount) ==
    /\ ~(KIND_SIGN[kind] = 1 /\ amount <= 0)
    /\ ~(KIND_SIGN[kind] = -1 /\ amount >= 0)

\* ck_ledger_kind_status_amount (migration 0015)
LedgerCheck(kind, status, amount) ==
    \/ kind = "deposit_in" /\ status = "posted" /\ amount # 0
    \/ kind = "refund" /\ status = "posted" /\ amount > 0
    \/ kind = "fee_capture" /\ status = "posted" /\ amount < 0
    \/ kind = "penalty" /\ status = "posted" /\ amount < 0
    \/ kind = "hold" /\ status = "held" /\ amount > 0
    \/ kind = "hold_release" /\ status = "posted" /\ amount < 0

\* select ... where idempotency_key = key
Existing(l, key) == {e \in l : e.key = key}

LedgerRow(user, kind, amount, reg, key) ==
    [key |-> key, user |-> user, kind |-> kind, amount |-> amount,
     status |-> KIND_STATUS[kind], reg |-> reg]

\* deltas in which a hold_release leaves holds_cents alone
DeltaKeepingHolds(kind, amount) ==
    [posted |-> IF kind \in {"deposit_in", "refund", "fee_capture", "penalty"} THEN amount ELSE 0,
     holds  |-> IF kind = "hold" THEN amount ELSE 0]

\* wallet deltas per kind
Delta(kind, amount) ==
    [posted |-> IF kind \in {"deposit_in", "refund", "fee_capture", "penalty"} THEN amount ELSE 0,
     holds  |-> IF kind \in {"hold", "hold_release"} THEN amount ELSE 0]

\* an apply that skips the idempotency lookup
apply_without_lookup(L, user, kind, amount, reg, key) ==
    [w |-> [L.w EXCEPT ![user] =
                [posted_cents |-> @.posted_cents + Delta(kind, amount).posted,
                 holds_cents  |-> @.holds_cents + Delta(kind, amount).holds]],
     l |-> L.l \cup {LedgerRow(user, kind, amount, reg, key)},
     entry |-> LedgerRow(user, kind, amount, reg, key)]

\* apply_ledger_entry on the pair L = [w |-> wallets, l |-> ledger rows]:
\* an existing key returns the row and touches nothing; otherwise the row is
\* inserted and the wallet totals move by the kind's delta.
\* The result carries the row the call returns as `entry`.
apply_ledger_entry(L, user, kind, amount, reg, key) ==
    IF Existing(L.l, key) # {}
    THEN [w |-> L.w, l |-> L.l, entry |-> CHOOSE e \in Existing(L.l, key) : TRUE]
    ELSE [w |-> [L.w EXCEPT ![user] =
                    [posted_cents |-> @.posted_cents + Delta(kind, amount).posted,
                     holds_cents  |-> @.holds_cents + Delta(kind, amount).holds]],
          l |-> L.l \cup {LedgerRow(user, kind, amount, reg, key)},
          entry |-> LedgerRow(user, kind, amount, reg, key)]

\* a sequence of ledger calls of one transaction, applied in order
RECURSIVE ApplyAll(_, _)
ApplyAll(L, calls) ==
    IF calls = <<>> THEN L
    ELSE LET c == Head(calls) IN
         ApplyAll(apply_ledger_entry(L, c.user, c.kind, c.amount, c.reg, c.key), Tail(calls))

Call(user, kind, amount, reg, key) ==
    [user |-> user, kind |-> kind, amount |-> amount, reg |-> reg, key |-> key]

\* get_wallet_summary(...).available_cents
Available(w, u) == w[u].posted_cents - w[u].holds_cents

\* POST /admin/deposits
Deposit(u, amount, key) ==
    LET L0 == [w |-> wallet, l |-> ledger]
        existed == Existing(ledger, <<"dep", key>>) # {}
        \* a zero amount passes the sign rule but fails the CHECK constraint:
        \* the insert raises, nothing is committed
        ok == SignOk("deposit_in", amount) /\ LedgerCheck("deposit_in", "posted", amount)
        L1 == apply_ledger_entry(L0, u, "deposit_in", amount, NULL, <<"dep", key>>)
    IN  /\ ok
        /\ ~existed                   \* else the existing row is returned, nothing written
        /\ wallet' = L1.w
        /\ ledger' = L1.l
        /\ UNCHANGED <<now, sess, regs, promote_stream, ingress, outbox>>


\* ------------------------------------------------------------------ registrations
Reg(user, is_host, guest_names, state, pos, gk) ==
    [host_user_id |-> user, is_host |-> is_host, seats |-> 1, guest_names |-> guest_names,
     state |-> state, waitlist_pos |-> pos, group_key |-> gk]

\* a remaining-seats query that forgets the confirmed rows
RemainingIgnoringConfirmed(rs, capacity) == capacity

\* _get_remaining_seats: max(0, capacity - confirmed)
Remaining(rs, capacity) == Max(0, capacity - ConfirmedSeats(rs))

Waitlisted(rs) == {i \in DOMAIN rs : rs[i].state = "waitlisted"}

RECURSIVE MaxOf(_)
MaxOf(S) == IF S = {} THEN 0
            ELSE LET x == CHOOSE y \in S : TRUE IN Max(x, MaxOf(S \ {x}))

\* a tail position that counts the waiting rows instead of following the largest position
WaitlistCount(rs) == Cardinality(Waitlisted(rs))

\* _next_waitlist_pos: coalesce(max(waitlist_pos), 0) + 1 over the waitlisted rows
NextWaitlistPos(rs) == MaxOf({rs[i].waitlist_pos : i \in Waitlisted(rs)}) + 1

\* uuid.uuid4() for a group_key: a value no row carries yet
NewGroupKey(rs) == MaxOf({rs[i].group_key : i \in DOMAIN rs}) + 1

\* a host query that looks at confirmed rows only
AlreadyConfirmedHost(rs, u) ==
    \E i \in DOMAIN rs : rs[i].host_user_id = u /\ rs[i].is_host /\ rs[i].state = "confirmed"

\* an allocator without the one-host check
NoHostCheck(rs, u) == FALSE

\* the "one active host seat per user per session" query of the allocator
AlreadyHost(rs, u) ==
    \E i \in DOMAIN rs : rs[i].host_user_id = u /\ rs[i].is_host /\ rs[i].state # "canceled"

\* [g.strip() for g in guest_names if g and g.strip()][:2]
RECURSIVE StripBlanks(_)
StripBlanks(names) ==
    IF names = <<>> THEN <<>>
    ELSE IF Head(names) = Blank THEN StripBlanks(Tail(names))
    ELSE <<Head(names)>> \o StripBlanks(Tail(names))

NormalizeGuests(names) == SubSeq(StripBlanks(names), 1, Min(2, Len(StripBlanks(names))))

\* ledger call of a freshly created row: capture for a confirmed seat, hold for a waitlisted one
RowCall(r, id) ==
    IF r.state = "confirmed"
    THEN Call(r.host_user_id, "fee_capture", -Fee, id, <<"cap", id>>)
    ELSE Call(r.host_user_id, "hold", Fee, id, <<"hold", id>>)

\* process_registration_request as a function of the database: the outcome
\* [state, rows created, host id, host waitlist_pos]
Allocate(u, guest_names) ==
    LET gnames    == NormalizeGuests(guest_names)
        total     == 1 + Len(gnames)
        remaining == Remaining(regs, sess.capacity)
        gk        == IF total > 1 \/ remaining = 0 THEN NewGroupKey(regs) ELSE NULL
        pos       == NextWaitlistPos(regs)
        hostId    == Len(regs) + 1
        rejected  == [state |-> "rejected", rows |-> <<>>, host |-> NULL, pos |-> NULL]
        \* guests confirmed after the host in the partial fit: min(remaining - 1, guests)
        nconf     == Min(Max(0, remaining - 1), Len(gnames))
    IN  IF sess.status # "scheduled" \/ now >= Started THEN rejected
        ELSE IF AlreadyHost(regs, u) THEN rejected
        ELSE IF Available(wallet, u) < Fee * total THEN rejected
        ELSE IF remaining >= total THEN
            \* CASE A: all fit
            [state |-> "confirmed", host |-> hostId, pos |-> NULL,
             rows |-> <<Reg(u, TRUE, <<>>, "confirmed", NULL, gk)>> \o
                      [i \in 1..Len(gnames) |-> Reg(u, FALSE, <<gnames[i]>>, "confirmed", NULL, gk)]]
        ELSE IF remaining = 0 THEN
            \* CASE B: no seats left, host first then each guest at the tail
            [state |-> "waitlisted", host |-> hostId, pos |-> pos,
             rows |-> <<Reg(u, TRUE, <<>>, "waitlisted", pos, gk)>> \o
                      [i \in 1..Len(gnames) |-> Reg(u, FALSE, <<gnames[i]>>, "waitlisted", pos + i, gk)]]
        ELSE
            \* CASE C: partial fit, host confirmed, guests while seats remain, rest to the tail
            [state |-> "confirmed", host |-> hostId, pos |-> NULL,
             rows |-> <<Reg(u, TRUE, <<>>, "confirmed", NULL, gk)>> \o
                      [i \in 1..Len(gnames) |->
                          IF i <= nconf
                          THEN Reg(u, FALSE, <<gnames[i]>>, "confirmed", NULL, gk)
                          ELSE Reg(u, FALSE, <<gnames[i]>>, "waitlisted", pos + (i - nconf - 1), gk)]]

\* registration_confirmed or registration_waitlisted for the new row id
CreatedEvent(r, id) ==
    <<IF r.state = "confirmed" THEN "registration_confirmed" ELSE "registration_waitlisted", id>>

\* an allocator that writes the event of the host row only
HostEventOnly(rows, n) == IF rows = <<>> THEN <<>> ELSE <<CreatedEvent(rows[1], n + 1)>>

\* one add_outbox_event after each created row, in creation order
CreatedEvents(rows, n) == [k \in DOMAIN rows |-> CreatedEvent(rows[k], n + k)]

\* the tables the allocator commits for outcome a: the created rows with one
\* ledger entry each; a rejected outcome has rolled back and leaves them as they are
AllocTables(a) ==
    LET n  == Len(regs)
        L1 == ApplyAll([w |-> wallet, l |-> ledger],
                       [i \in 1..Len(a.rows) |-> RowCall(a.rows[i], n + i)])
    IN  [rs |-> regs \o a.rows, w |-> L1.w, l |-> L1.l]

\* the allocator's transaction for user u (the seats argument is not read:
\* the seat count is 1 + the number of guest names kept)
process_registration_request(u, seats, guest_names) ==
    LET a == Allocate(u, guest_names)
        t == AllocTables(a)
    IN  /\ Len(regs) + Len(a.rows) <= RegsLimit
        /\ regs' = t.rs
        /\ wallet' = t.w
        /\ ledger' = t.l
        /\ outbox' = Emit(outbox, CreatedEvents(a.rows, Len(regs)))
        /\ UNCHANGED <<now, sess, promote_stream>>


\* ------------------------------------------------------------------ waitlist promotion
\* update registrations set waitlist_pos = waitlist_pos - 1
\*   where state = 'waitlisted' and waitlist_pos > vacated
ShiftDown(rs, vacated) ==
    [i \in DOMAIN rs |->
        IF rs[i].state = "waitlisted" /\ rs[i].waitlist_pos # NULL /\ rs[i].waitlist_pos > vacated
        THEN [rs[i] EXCEPT !.waitlist_pos = @ - 1]
        ELSE rs[i]]

\* a collapse that shifts nobody
collapse_nothing(rs, vacated_pos) == rs

\* _collapse_waitlist_after: nothing to do for a NULL position
collapse_waitlist_after(rs, vacated_pos) ==
    IF vacated_pos = NULL THEN rs ELSE ShiftDown(rs, vacated_pos)

\* a head query ordered by waitlist_pos desc
TailOfWaitlist(rs) ==
    CHOOSE i \in Waitlisted(rs) :
        \A j \in Waitlisted(rs) : rs[i].waitlist_pos >= rs[j].waitlist_pos

\* a head query without the state filter: the first row that is not confirmed
FirstUnconfirmed(rs) ==
    CHOOSE i \in DOMAIN rs :
        /\ rs[i].state # "confirmed"
        /\ \A j \in DOMAIN rs : rs[j].state # "confirmed" => i <= j

\* order by waitlist_pos asc limit 1 (NULLs sort last)
HeadOfWaitlist(rs) ==
    CHOOSE i \in Waitlisted(rs) :
        \A j \in Waitlisted(rs) :
            \/ rs[j].waitlist_pos = NULL
            \/ (rs[i].waitlist_pos # NULL /\ rs[i].waitlist_pos <= rs[j].waitlist_pos)

\* the while loop of promote_waitlist_fifo on st = [rs, L, remaining, promoted]
RECURSIVE PromoteLoop(_)
PromoteLoop(st) ==
    IF st.remaining <= 0 \/ Waitlisted(st.rs) = {} THEN st
    ELSE LET h     == HeadOfWaitlist(st.rs)
             head  == st.rs[h]
             total == head.seats * Fee
         IN  IF head.seats > st.remaining THEN st      \* strict FIFO: stop, do not skip
             ELSE PromoteLoop(
                 [rs |-> collapse_waitlist_after(
                            [st.rs EXCEPT ![h].state = "confirmed", ![h].waitlist_pos = NULL],
                            head.waitlist_pos),
                  L  |-> ApplyAll(st.L,
                            <<Call(head.host_user_id, "fee_capture", -total, h, <<"cap", h>>),
                              Call(head.host_user_id, "hold_release", -total, h, <<"rel", h>>)>>),
                  remaining |-> st.remaining - head.seats,
                  promoted  |-> Append(st.promoted, h)])

\* promote_waitlist_fifo: the rows promoted and the database after the pass
promote_waitlist_fifo ==
    LET st0 == [rs |-> regs, L |-> [w |-> wallet, l |-> ledger],
                remaining |-> Remaining(regs, sess.capacity), promoted |-> <<>>]
    IN  IF sess.status # "scheduled" THEN st0 ELSE PromoteLoop(st0)

\* promotion worker's _ensure_group for a scheduled session it discovers:
\* XGROUP CREATE ... id="$" starts the group behind the entries already in the
\* stream, which are never delivered to it (promote_stream counts the entries
\* still to be delivered)
ensure_group ==
    /\ ~redis.promote_group
    /\ sess.status = "scheduled"
    /\ redis' = [redis EXCEPT !.promote_group = TRUE]
    /\ promote_stream' = 0
    /\ UNCHANGED <<now, sess, regs, wallet, ledger, http, worker, alloc_runs, closer, txns, outbox>>

\* "publish one outbox event per promoted registration (inside the tx)"
PromotedEvents(promoted) == [k \in DOMAIN promoted |-> <<"registration_promoted", promoted[k]>>]

\* promotion worker: one message of the stream, one promotion pass, then the ack
PromotionWorker ==
    LET st == promote_waitlist_fifo
    IN  /\ redis.promote_group
        /\ promote_stream > 0
        /\ promote_stream' = promote_stream - 1
        /\ regs' = st.rs
        /\ wallet' = st.L.w
        /\ ledger' = st.L.l
        /\ outbox' = Emit(outbox, PromotedEvents(st.promoted))
        /\ UNCHANGED <<now, sess, ingress>>

\* enqueue_promotion_check: XADD to the session's promotion stream
enqueue_promotion_check == promote_stream' = promote_stream + 1

\* ------------------------------------------------------------------ cancellation
\* a policy that applies the same-day split before local midnight too
compute_policy_always_split(t, total_fee) ==
    IF t \in {BeforeDay, SameDay} THEN [refund |-> total_fee, penalty |-> -(total_fee \div 2)]
    ELSE [refund |-> 0, penalty |-> 0]

\* _compute_policy: (refund_cents, penalty_cents) for a confirmed seat
compute_policy(t, total_fee) ==
    IF t = BeforeDay THEN [refund |-> total_fee, penalty |-> 0]
    ELSE IF t = SameDay THEN [refund |-> total_fee, penalty |-> -(total_fee \div 2)]
    ELSE [refund |-> 0, penalty |-> 0]

\* "Outbox event per canceled reg"
CanceledEvent(id) == <<"registration_canceled", id>>

\* _cancel_one on st = [rs, L, refund, penalty, n, events]
cancel_one(st, id) ==
    LET target == st.rs[id]
        fee    == target.seats * Fee
        pol    == compute_policy(now, fee)
    IN  IF target.state = "waitlisted" THEN
            [rs |-> collapse_waitlist_after(
                        [st.rs EXCEPT ![id].state = "canceled", ![id].waitlist_pos = NULL],
                        target.waitlist_pos),
             L  |-> apply_ledger_entry(st.L, target.host_user_id, "hold_release", -fee, id,
                                       <<"rel_cancel", id>>),
             refund |-> st.refund, penalty |-> st.penalty, n |-> st.n + 1,
             events |-> Append(st.events, CanceledEvent(id))]
        ELSE IF target.state = "confirmed" THEN
            [rs |-> [st.rs EXCEPT ![id].state = "canceled"],
             L  |-> ApplyAll(st.L,
                        (IF pol.refund # 0
                         THEN <<Call(target.host_user_id, "refund", pol.refund, id, <<"refund_cancel", id>>)>>
                         ELSE <<>>) \o
                        (IF pol.penalty # 0
                         THEN <<Call(target.host_user_id, "penalty", pol.penalty, id, <<"penalty_cancel", id>>)>>
                         ELSE <<>>)),
             refund |-> st.refund + pol.refund, penalty |-> st.penalty + pol.penalty,
             n |-> st.n + 1, events |-> Append(st.events, CanceledEvent(id))]
        ELSE [st EXCEPT !.events = Append(@, CanceledEvent(id))]

\* the cascade over the sibling rows, in id order
RECURSIVE CancelAll(_, _)
CancelAll(st, ids) ==
    IF ids = {} THEN st
    ELSE LET i == CHOOSE x \in ids : \A y \in ids : x <= y
         IN  CancelAll(cancel_one(st, i), ids \ {i})

\* siblings of the cascade: same group_key, another id, not canceled
Siblings(rs, id) ==
    {i \in DOMAIN rs : i # id /\ rs[i].group_key = rs[id].group_key /\ rs[i].state # "canceled"}

\* a cascade test that only fires for a row that carries guest names itself
IsMultiSeatRow(r) == r.group_key # NULL /\ r.seats > 1

\* "host seat in a split group": group_key set, seats = 1 and no guest_names
IsHostSeatInGroup(r) == r.group_key # NULL /\ r.seats = 1 /\ r.guest_names = <<>>

\* what cancel_registration writes and returns for an active row id before starts_at:
\* the row itself, then the cascade when it is a host seat of a group;
\* refund and penalty are the totals returned to the caller
cancel_result(id) ==
    LET st0 == [rs |-> regs, L |-> [w |-> wallet, l |-> ledger], refund |-> 0, penalty |-> 0, n |-> 0,
                events |-> <<>>]
        st1 == cancel_one(st0, id)
    IN  IF IsHostSeatInGroup(regs[id]) THEN CancelAll(st1, Siblings(st1.rs, id)) ELSE st1

\* a start check that lets cancellations through until the auto-close grace has passed
TooLateAfterGrace(t) == t >= Past2h

\* now_utc >= sess.starts_at
TooLate(t) == t >= Started

\* a cancellation without the "already canceled" return
cancel_outcome_unchecked(id, caller, is_admin) ==
    LET same(state) == [refund |-> 0, penalty |-> 0, state |-> state, committed |-> FALSE,
                        rs |-> regs, L |-> [w |-> wallet, l |-> ledger], events |-> <<>>]
    IN  IF id \notin DOMAIN regs THEN same("not_found")
        ELSE IF ~is_admin /\ regs[id].host_user_id # caller THEN same("forbidden")
        ELSE IF TooLate(now) THEN same("too_late")
        ELSE LET st2 == cancel_result(id)
             IN  [refund |-> st2.refund, penalty |-> st2.penalty, state |-> "canceled",
                  committed |-> TRUE, rs |-> st2.rs, L |-> st2.L, events |-> st2.events]

\* cancel_registration as a function of the database: the returned
\* (refund_cents, penalty_cents, state) and the tables it leaves committed.
\* Every early return rolls back; PermissionError is the outcome "forbidden".
cancel_outcome(id, caller, is_admin) ==
    LET same(state) == [refund |-> 0, penalty |-> 0, state |-> state, committed |-> FALSE,
                        rs |-> regs, L |-> [w |-> wallet, l |-> ledger], events |-> <<>>]
    IN  IF id \notin DOMAIN regs THEN same("not_found")
        ELSE IF ~is_admin /\ regs[id].host_user_id # caller THEN same("forbidden")
        ELSE IF regs[id].state = "canceled" THEN same("canceled")
        ELSE IF TooLate(now) THEN same("too_late")
        ELSE LET st2 == cancel_result(id)
             IN  [refund |-> st2.refund, penalty |-> st2.penalty, state |-> "canceled",
                  committed |-> TRUE, rs |-> st2.rs, L |-> st2.L, events |-> st2.events]

\* cancel_registration: a call that commits, then the promotion check
cancel_registration(id, caller, is_admin) ==
    LET o == cancel_outcome(id, caller, is_admin)
    IN  /\ o.committed
        /\ promote_stream < MaxPromote
        /\ regs' = o.rs
        /\ wallet' = o.L.w
        /\ ledger' = o.L.l
        /\ enqueue_promotion_check
        /\ outbox' = Emit(outbox, o.events)
        /\ UNCHANGED <<now, sess, ingress>>


\* ------------------------------------------------------------------ guest edit / guest add
\* update_guest_list
update_guest_list(id, caller, is_admin, new_guest_names) ==
    LET names  == NormalizeGuests(new_guest_names)
        target == 1 + Len(names)
        reg    == regs[id]
        removed == reg.seats - target
        delta  == removed * Fee
        pol    == compute_policy(now, delta)
        L0     == [w |-> wallet, l |-> ledger]
        L1     == IF reg.state = "waitlisted"
                  THEN apply_ledger_entry(L0, reg.host_user_id, "hold_release", -delta, id,
                                          <<"gu_release", id, target>>)
                  ELSE ApplyAll(L0,
                        (IF pol.refund # 0
                         THEN <<Call(reg.host_user_id, "refund", pol.refund, id, <<"gu_refund", id, target>>)>>
                         ELSE <<>>) \o
                        (IF pol.penalty # 0
                         THEN <<Call(reg.host_user_id, "penalty", pol.penalty, id, <<"gu_penalty", id, target>>)>>
                         ELSE <<>>))
    IN  /\ id \in DOMAIN regs                             \* else NotFound
        /\ is_admin \/ reg.host_user_id = caller           \* else Forbidden
        /\ now < Started                                   \* else TooLate
        /\ reg.state \in {"confirmed", "waitlisted"}       \* else InvalidChange
        /\ target <= reg.seats                             \* else InvalidChange
        /\ IF target = reg.seats THEN
             \* names-only update
             /\ regs' = [regs EXCEPT ![id].guest_names = names]
             /\ UNCHANGED <<now, sess, wallet, ledger, promote_stream, ingress, outbox>>
           ELSE \* seat reduction
             /\ reg.state = "confirmed" => promote_stream < MaxPromote
             /\ regs' = [regs EXCEPT ![id].seats = target, ![id].guest_names = names]
             /\ wallet' = L1.w
             /\ ledger' = L1.l
             /\ IF reg.state = "confirmed" THEN enqueue_promotion_check
                ELSE UNCHANGED promote_stream
             /\ UNCHANGED <<now, sess, ingress, outbox>>

\* a fairness decision that queues the guest only when the session is full
QueueOnlyWhenFull(rs, capacity) == Remaining(rs, capacity) <= 0

\* "if waitlist_exists or remaining <= 0": the guest goes to the tail of the waitlist
QueueAtTail(rs, capacity) == Waitlisted(rs) # {} \/ Remaining(rs, capacity) <= 0

\* add_guest_registration
add_guest_registration(host_id, guest_name, caller, is_admin) ==
    LET host_reg  == regs[host_id]
        \* the host row gets a fresh group_key when it has none
        gk        == IF host_reg.group_key = NULL THEN NewGroupKey(regs) ELSE host_reg.group_key
        rs1       == [regs EXCEPT ![host_id].group_key = gk]
        active_guests == Cardinality({i \in DOMAIN rs1 :
                            /\ rs1[i].group_key = gk /\ i # host_id
                            /\ ~rs1[i].is_host /\ rs1[i].state # "canceled"})
        pos       == NextWaitlistPos(rs1)
        gid       == Len(regs) + 1
        queued    == QueueAtTail(rs1, sess.capacity)
        g         == IF queued
                     THEN Reg(host_reg.host_user_id, FALSE, <<guest_name>>, "waitlisted", pos, gk)
                     ELSE Reg(host_reg.host_user_id, FALSE, <<guest_name>>, "confirmed", NULL, gk)
        L1        == IF queued
                     THEN apply_ledger_entry([w |-> wallet, l |-> ledger], host_reg.host_user_id,
                                             "hold", Fee, gid, <<"hold:addguest", gid>>)
                     ELSE apply_ledger_entry([w |-> wallet, l |-> ledger], host_reg.host_user_id,
                                             "fee_capture", -Fee, gid, <<"cap:addguest", gid>>)
    IN  /\ guest_name # Blank                              \* else InvalidState
        /\ host_id \in DOMAIN regs                         \* else NotFound
        /\ is_admin \/ host_reg.host_user_id = caller      \* else Forbidden
        /\ sess.status = "scheduled"                       \* else InvalidState
        /\ now < Started                                   \* else TooLate
        /\ active_guests < 2                               \* else LimitExceeded
        /\ Available(wallet, host_reg.host_user_id) >= Fee \* else InsufficientFunds
        /\ Len(regs) < RegsLimit
        /\ regs' = Append(rs1, g)
        /\ wallet' = L1.w
        /\ ledger' = L1.l
        /\ outbox' = Emit(outbox, <<CreatedEvent(g, gid)>>)
        /\ UNCHANGED <<now, sess, promote_stream, ingress>>

\* ------------------------------------------------------------------ session lifecycle
Statuses == {"scheduled", "closed", "canceled"}
NoChange == "none"      \* a status the PATCH leaves out
NoCapacity == -1        \* a capacity the PATCH leaves out
AdminInputs ==
    {<<c, NoChange>> : c \in 0..MaxCapacity} \cup {<<NoCapacity, st>> : st \in Statuses}
        \cup {<<MaxCapacity, "scheduled">>}

\* allowed = {...} of admin_update_session
AllowedTransitions ==
    {<<"scheduled", "closed">>, <<"closed", "scheduled">>,
     <<"scheduled", "canceled">>, <<"closed", "canceled">>}

\* a validation that accepts every status change and every capacity above the confirmed seats
admin_error_capacity_only(new_capacity, new_status) ==
    IF new_capacity # NoCapacity /\ new_capacity < ConfirmedSeats(regs) THEN "CapacityBelowConfirmed"
    ELSE IF new_capacity # NoCapacity /\ new_capacity <= 0 THEN "IntegrityError"
    ELSE "none"

\* a validation that checks the status transition and never the capacity
admin_error_status_only(new_capacity, new_status) ==
    IF new_status # NoChange /\ new_status # sess.status
       /\ (sess.status = "canceled" \/ <<sess.status, new_status>> \notin AllowedTransitions)
    THEN "InvalidTransition"
    ELSE IF new_capacity # NoCapacity /\ new_capacity <= 0 THEN "IntegrityError"
    ELSE "none"

\* the exception admin_update_session raises for a PATCH, "none" when it commits
admin_error(new_capacity, new_status) ==
    LET confirmed  == ConfirmedSeats(regs)
        old_status == sess.status
    IN  IF new_capacity # NoCapacity /\ new_capacity < confirmed THEN "CapacityBelowConfirmed"
        ELSE IF new_status # NoChange /\ new_status # old_status
                /\ (old_status = "canceled" \/ <<old_status, new_status>> \notin AllowedTransitions)
             THEN "InvalidTransition"
        \* sessions_capacity_pos: CHECK (capacity > 0)
        ELSE IF new_capacity # NoCapacity /\ new_capacity <= 0 THEN "IntegrityError"
        ELSE "none"

\* ledger calls of the session cancel: full refund of confirmed rows, release of waitlisted ones
SessCancelCalls(rs) ==
    [i \in DOMAIN rs |->
        IF rs[i].state = "confirmed"
        THEN <<Call(rs[i].host_user_id, "refund", rs[i].seats * Fee, i, <<"refund_sess_cancel", i>>)>>
        ELSE IF rs[i].state = "waitlisted"
        THEN <<Call(rs[i].host_user_id, "hold_release", -(rs[i].seats * Fee), i, <<"release_sess_cancel", i>>)>>
        ELSE <<>>]

\* a close that writes no ledger call
NoReleaseCalls(rs, prefix) == [i \in DOMAIN rs |-> <<>>]

\* ledger calls that release the hold of every waitlisted row under the key prefix
ReleaseCalls(rs, prefix) ==
    [i \in DOMAIN rs |->
        IF rs[i].state = "waitlisted"
        THEN <<Call(rs[i].host_user_id, "hold_release", -(rs[i].seats * Fee), i, <<prefix, i>>)>>
        ELSE <<>>]

RECURSIVE Flatten(_)
Flatten(ss) == IF ss = <<>> THEN <<>> ELSE Head(ss) \o Flatten(Tail(ss))

\* a close that releases the holds and leaves the rows on the waitlist
CloseNothing(rs) == rs

\* close side effect: waitlisted rows end canceled with a NULL position
CloseWaitlisted(rs) ==
    [i \in DOMAIN rs |->
        IF rs[i].state = "waitlisted"
        THEN [rs[i] EXCEPT !.state = "canceled", !.waitlist_pos = NULL]
        ELSE rs[i]]

\* a session cancel that leaves the confirmed rows confirmed
CancelWaitlistedOnly(rs) ==
    [i \in DOMAIN rs |->
        IF rs[i].state = "waitlisted" THEN [rs[i] EXCEPT !.state = "canceled"] ELSE rs[i]]

\* session-cancel side effect: every active row ends canceled (waitlist_pos is not touched)
CancelActive(rs) ==
    [i \in DOMAIN rs |->
        IF rs[i].state # "canceled" THEN [rs[i] EXCEPT !.state = "canceled"] ELSE rs[i]]

\* session_status_changed, written with the UPDATE when the status changes
StatusEvents(old_status, new_status) ==
    IF new_status # NoChange /\ new_status # old_status
    THEN <<<<"session_status_changed", 0>>>> ELSE <<>>

\* the add_outbox_event call that precedes the default path's commit
DefaultPathEvents == <<<<"session_canceled", 0>>>>

\* admin_update_session
admin_update_session(new_capacity, new_status) ==
    LET confirmed  == ConfirmedSeats(regs)
        old_status == sess.status
        cap1       == IF new_capacity # NoCapacity THEN new_capacity ELSE sess.capacity
        status1    == IF new_status # NoChange THEN new_status ELSE old_status
        L0         == [w |-> wallet, l |-> ledger]
        changed    == StatusEvents(old_status, new_status)
    IN  /\ admin_error(new_capacity, new_status) = "none"     \* else rollback, nothing changes
        /\ IF new_status = "canceled" THEN
                LET L1 == ApplyAll(L0, Flatten(SessCancelCalls(regs)))
                IN  /\ sess' = [capacity |-> cap1, status |-> status1]
                    /\ regs' = CancelActive(regs)
                    /\ wallet' = L1.w
                    /\ ledger' = L1.l
                    /\ outbox' = Emit(outbox, changed \o <<<<"session_canceled", 0>>>>)
                    /\ UNCHANGED <<now, promote_stream, ingress>>
           ELSE IF new_status = "closed" THEN
                LET L1 == ApplyAll(L0, Flatten(ReleaseCalls(regs, "release_close")))
                IN  /\ sess' = [capacity |-> cap1, status |-> status1]
                    /\ regs' = CloseWaitlisted(regs)
                    /\ wallet' = L1.w
                    /\ ledger' = L1.l
                    /\ outbox' = Emit(outbox, changed)
                    /\ UNCHANGED <<now, promote_stream, ingress>>
           ELSE IF new_capacity # NoCapacity /\ new_capacity > confirmed /\ status1 = "scheduled" THEN
                /\ promote_stream < MaxPromote
                /\ sess' = [capacity |-> cap1, status |-> status1]
                /\ enqueue_promotion_check
                \* new_capacity != sess.capacity is read from the ORM object after the
                \* UPDATE: whether it still holds the old value is left open
                /\ \E stale \in BOOLEAN :
                        outbox' = Emit(outbox, changed \o
                            (IF stale /\ new_capacity # sess.capacity
                             THEN <<<<"session_capacity_changed", 0>>>> ELSE <<>>))
                /\ UNCHANGED <<now, regs, wallet, ledger, ingress>>
           ELSE /\ sess' = [capacity |-> cap1, status |-> status1]
                /\ outbox' = Emit(outbox, changed \o DefaultPathEvents)
                /\ UNCHANGED <<now, regs, wallet, ledger, promote_stream, ingress>>

\* close_due_sessions: every scheduled session with starts_at <= now - 2h is closed
\* and its waitlisted rows are released and canceled (no due session: nothing to do)
close_due_sessions ==
    LET L1 == ApplyAll([w |-> wallet, l |-> ledger], Flatten(ReleaseCalls(regs, "release_auto_close")))
    IN  /\ sess.status = "scheduled"
        /\ now >= Past2h
        /\ sess' = [sess EXCEPT !.status = "closed"]
        /\ regs' = CloseWaitlisted(regs)
        /\ wallet' = L1.w
        /\ ledger' = L1.l
        /\ outbox' = Emit(outbox, <<<<"session_status_changed", 0>>>>)
        /\ UNCHANGED <<now, promote_stream>>

\* ------------------------------------------------------------------ session closer
Replicas == {"closer1", "closer2"}

\* redis.set(lock:session_closer, "1", ex=AUTO_CLOSE_LOCK_TTL_SEC, nx=True): a replica
\* that finds the key set returns 0 and sleeps on; one that sets it goes on to the scan
acquire_lock(r) ==
    /\ closer.pc[r] = "sleep"
    /\ ~closer.lock
    /\ closer' = [closer EXCEPT !.lock = TRUE, !.pc[r] = "scan"]
    /\ UNCHANGED <<now, sess, regs, wallet, ledger, promote_stream, redis, http, worker, alloc_runs,
                   txns, outbox>>

\* the rest of run_once: close_due_sessions in its own transaction, then back to the
\* sleep of run_forever; the key is never deleted
run_once(r) ==
    /\ closer.pc[r] = "scan"
    /\ \/ close_due_sessions
       \/ /\ ~(sess.status = "scheduled" /\ now >= Past2h)
          /\ UNCHANGED <<now, sess, regs, wallet, ledger, promote_stream, outbox>>
    /\ closer' = [closer EXCEPT !.pc[r] = "sleep"]
    /\ UNCHANGED <<redis, http, worker, alloc_runs, txns>>

\* the key expires AUTO_CLOSE_LOCK_TTL_SEC after it was set, whatever its setter does
LockExpires ==
    /\ closer.lock
    /\ closer' = [closer EXCEPT !.lock = FALSE]
    /\ UNCHANGED <<now, sess, regs, wallet, ledger, promote_stream, redis, http, worker, alloc_runs,
                   txns, outbox>>

\* the closer worker run on one replica: each scan is one close_due_sessions call
SessionCloser == close_due_sessions /\ UNCHANGED ingress

\* the wall clock passes into the next phase
Tick ==
    /\ now < Past3h
    /\ now' = now + 1
    /\ UNCHANGED <<sess, regs, wallet, ledger, promote_stream, ingress, outbox>>

\* ------------------------------------------------------------------ registration ingress
IdemKeys == {"k1", "k2"}          \* Idempotency-Key header values
Procs    == 1..MaxProcs           \* requests handled by the endpoint
REGISTRATION_QUEUE_MAX == 120
RL_REG_PER_USER_10S    == 5

Idle == [pc |-> "idle", user |-> "-", key |-> "-", guest_names |-> <<>>, request_id |-> NULL]

\* the request leaves the handler with an HTTP status
Respond(p, code) == http' = [http EXCEPT ![p].pc = code]

\* check_backlog_or_429, then limit_registration (the per-user fixed window)
Submit(p, u, key, guest_names) ==
    /\ http[p].pc = "idle"
    /\ redis' = IF redis.backlog >= REGISTRATION_QUEUE_MAX THEN redis   \* 429 before the counter
                 ELSE [redis EXCEPT !.rl[u] = @ + 1]
    /\ http' = [http EXCEPT ![p] =
                 [pc |-> IF redis.backlog >= REGISTRATION_QUEUE_MAX
                            \/ redis.rl[u] + 1 > RL_REG_PER_USER_10S
                         THEN "429" ELSE "validate",
                  user |-> u, key |-> key, guest_names |-> guest_names, request_id |-> NULL]]
    /\ UNCHANGED <<now, sess, regs, wallet, ledger, promote_stream, worker, alloc_runs, closer, txns, outbox>>

\* 1) the session is schedulable, 2) the user has no active registration in it
Validate(p) ==
    /\ http[p].pc = "validate"
    /\ IF sess.status # "scheduled" THEN Respond(p, "409")
       ELSE IF \E i \in DOMAIN regs :
                  regs[i].host_user_id = http[p].user /\ regs[i].state # "canceled"
            THEN Respond(p, "409")
       ELSE Respond(p, "idem_get")
    /\ UNCHANGED <<now, sess, regs, wallet, ledger, promote_stream, redis, worker, alloc_runs, closer, txns, outbox>>

\* 3) req_id = redis.get(idemp_key): a known key answers with its request id,
\* otherwise a fresh uuid is drawn (one per request handled)
IdemGet(p) ==
    LET req_id == redis.idem[<<http[p].user, http[p].key>>]
    IN  /\ http[p].pc = "idem_get"
        /\ IF req_id # NULL
           THEN http' = [http EXCEPT ![p].pc = "202", ![p].request_id = req_id]
           ELSE http' = [http EXCEPT ![p].pc = "idem_set", ![p].request_id = p]
        /\ UNCHANGED <<now, sess, regs, wallet, ledger, promote_stream, redis, worker, alloc_runs, closer, txns, outbox>>

\* redis.set(idemp_key, req_id, ex=IDEMP_TTL_SEC)
IdemSet(p) ==
    /\ http[p].pc = "idem_set"
    /\ redis' = [redis EXCEPT !.idem[<<http[p].user, http[p].key>>] = http[p].request_id]
    /\ Respond(p, "hset")
    /\ UNCHANGED <<now, sess, regs, wallet, ledger, promote_stream, worker, alloc_runs, closer, txns, outbox>>

\* 4) redis.hset(req_key, state = queued)
StatusQueued(p) ==
    /\ http[p].pc = "hset"
    /\ redis' = [redis EXCEPT !.status[http[p].request_id] = "queued"]
    /\ Respond(p, "xadd")
    /\ UNCHANGED <<now, sess, regs, wallet, ledger, promote_stream, worker, alloc_runs, closer, txns, outbox>>

\* 5) redis.xadd(stream, fields)
StreamAdd(p) ==
    /\ http[p].pc = "xadd"
    /\ redis' = [redis EXCEPT !.stream = Append(@,
                    [request_id |-> http[p].request_id, user_id |-> http[p].user,
                     guest_names |-> http[p].guest_names, idempotency_key |-> http[p].key])]
    /\ Respond(p, "incr")
    /\ UNCHANGED <<now, sess, regs, wallet, ledger, promote_stream, worker, alloc_runs, closer, txns, outbox>>

\* 5.1) inc_backlog, then the 202 response with the request id
BacklogIncr(p) ==
    /\ http[p].pc = "incr"
    /\ redis' = [redis EXCEPT !.backlog = @ + 1]
    /\ Respond(p, "202")
    /\ UNCHANGED <<now, sess, regs, wallet, ledger, promote_stream, worker, alloc_runs, closer, txns, outbox>>

\* a read that delivers the newest message of the stream
NewestMessage(stream, last_delivered) == Len(stream)

\* the ">" id of XREADGROUP with count=1: the oldest message never delivered to the group
NextMessage(stream, last_delivered) == last_delivered + 1

\* main_loop: XREADGROUP g1 ... ">" count=1 delivers the next never-delivered message
WorkerRead ==
    LET msg == NextMessage(redis.stream, redis.last_delivered)
    IN  /\ worker.pc = "read"
        /\ redis.last_delivered < Len(redis.stream)
        /\ redis' = [redis EXCEPT !.last_delivered = msg]
        /\ worker' = [pc |-> "process", msg |-> msg]
        /\ UNCHANGED <<now, sess, regs, wallet, ledger, promote_stream, http, alloc_runs, closer, txns, outbox>>

\* _process_msg: the allocator's transaction commits; unpacking its 4-tuple into
\* three names then raises, so the status update, the ack and the backlog
\* decrement that follow are never executed
WorkerProcess ==
    LET fields == redis.stream[worker.msg]
    IN  /\ worker.pc = "process"
        /\ process_registration_request(fields.user_id, 1 + Len(fields.guest_names),
                                        fields.guest_names)
        /\ alloc_runs' = Append(alloc_runs, fields.request_id)
        /\ worker' = [worker EXCEPT !.pc = "except"]
        /\ UNCHANGED <<redis, http, txns, closer>>

\* main_loop's except branch: status rejected, no ack
WorkerMarkRejected ==
    /\ worker.pc = "except"
    /\ redis' = [redis EXCEPT !.status[redis.stream[worker.msg].request_id] = "rejected"]
    /\ worker' = [pc |-> "read", msg |-> NULL]
    /\ UNCHANGED <<now, sess, regs, wallet, ledger, promote_stream, http, alloc_runs, closer, txns, outbox>>

\* ------------------------------------------------------------------ concurrent deposits
\* POST /admin/deposits runs apply_ledger_entry in the session's default
\* transaction (READ COMMITTED): the statements of two requests interleave.
\* A transaction sees the committed tables and its own pending writes.
NoTxn == [pc |-> "idle", user |-> "-", amount |-> 0, key |-> NULL,
          row |-> {}, delta |-> 0, lock |-> FALSE]

\* rows transaction p sees: committed rows and its own pending insert
Visible(p) == ledger \cup txns[p].row

\* the wallet row of user u is locked by a transaction other than p
WalletLockedByOther(p, u) ==
    \E q \in Procs : q # p /\ txns[q].lock /\ txns[q].user = u

\* a transaction other than p holds a not yet committed insert of the key
KeyInsertPending(p, key) ==
    \E q \in Procs : q # p /\ \E e \in txns[q].row : e.key = key

TxnStep(p, t) ==
    /\ txns' = [txns EXCEPT ![p] = t]
    /\ UNCHANGED <<now, sess, regs, wallet, ledger, promote_stream, redis, http, worker, alloc_runs, closer, outbox>>

\* the request arrives; the sign validation of apply_ledger_entry
DepositBegin(p, u, amount, key) ==
    /\ txns[p].pc = "idle"
    /\ TxnStep(p, [NoTxn EXCEPT !.pc = IF SignOk("deposit_in", amount) THEN "lookup" ELSE "error",
                               !.user = u, !.amount = amount, !.key = <<"dep", key>>])

\* 1) idempotency lookup: an existing row is returned, the router commits nothing new
DepositLookup(p) ==
    /\ txns[p].pc = "lookup"
    /\ TxnStep(p, [txns[p] EXCEPT !.pc = IF Existing(Visible(p), txns[p].key) # {}
                                        THEN "commit" ELSE "lock_wallet"])

\* select Wallet ... with_for_update: waits while another transaction holds the row
DepositLockWallet(p) ==
    /\ txns[p].pc = "lock_wallet"
    /\ ~WalletLockedByOther(p, txns[p].user)
    /\ TxnStep(p, [txns[p] EXCEPT !.pc = "insert", !.lock = TRUE])

\* insert(LedgerEntry): waits for a pending insert of the same key; a unique or
\* CHECK violation raises IntegrityError, and the except branch rolls the
\* transaction back (pending writes and locks are gone) and falls through
DepositInsert(p) ==
    LET t   == txns[p]
        bad == \/ Existing(ledger, t.key) # {}
               \/ ~LedgerCheck("deposit_in", KIND_STATUS["deposit_in"], t.amount)
    IN  /\ t.pc = "insert"
        /\ ~KeyInsertPending(p, t.key)
        /\ TxnStep(p, IF bad
                      THEN [t EXCEPT !.pc = "update", !.row = {}, !.delta = 0, !.lock = FALSE]
                      ELSE [t EXCEPT !.pc = "update",
                                     !.row = {LedgerRow(t.user, "deposit_in", t.amount, NULL, t.key)}])

\* update(Wallet).values(posted_cents = posted_cents + delta_posted): takes the row lock
DepositUpdateWallet(p) ==
    LET t == txns[p]
    IN  /\ t.pc = "update"
        /\ ~WalletLockedByOther(p, t.user)
        /\ TxnStep(p, [t EXCEPT !.pc = "select", !.lock = TRUE,
                                !.delta = @ + Delta("deposit_in", t.amount).posted])

\* the final select of the row by key: RuntimeError when there is none
DepositSelect(p) ==
    LET t == txns[p]
    IN  /\ t.pc = "select"
        /\ TxnStep(p, IF Existing(Visible(p), t.key) # {}
                      THEN [t EXCEPT !.pc = "commit"]
                      ELSE [t EXCEPT !.pc = "error", !.row = {}, !.delta = 0, !.lock = FALSE])

\* the router's db.commit(): pending writes become the committed state
DepositCommit(p) ==
    LET t == txns[p]
    IN  /\ t.pc = "commit"
        /\ wallet' = [wallet EXCEPT ![t.user].posted_cents = @ + t.delta]
        /\ ledger' = ledger \cup t.row
        /\ txns' = [txns EXCEPT ![p] = [t EXCEPT !.pc = "done", !.row = {}, !.delta = 0, !.lock = FALSE]]
        /\ UNCHANGED <<now, sess, regs, promote_stream, redis, http, worker, alloc_runs, closer, outbox>>

\* ------------------------------------------------------------------ outbox
Channels == {"session", "req"}

\* add_outbox_event, committed with the caller's transaction:
\* sent_at NULL, attempts 0 (server defaults)
add_outbox_event(channel) ==
    /\ Len(outbox.rows) < MaxEvents
    /\ outbox' = [outbox EXCEPT !.rows = Append(@,
                    [channel |-> channel, sent |-> FALSE, attempts |-> 0, error |-> FALSE])]
    /\ UNCHANGED <<now, sess, regs, wallet, ledger, promote_stream, redis, http, worker, alloc_runs, closer, txns>>

\* where sent_at IS NULL and available_at <= now(), order by id, limit BATCH
Unsent(rows) == {i \in DOMAIN rows : ~rows[i].sent}

\* a loop body that counts the attempt and never sets sent_at
publish_never_marks(evt, ok) == [evt EXCEPT !.attempts = @ + 1, !.error = ~ok]

\* the loop body of publish_once for one event: ok is whether redis.publish returned
publish_result(evt, ok) ==
    IF ok THEN [evt EXCEPT !.sent = TRUE, !.attempts = @ + 1, !.error = FALSE]
    ELSE [evt EXCEPT !.attempts = @ + 1, !.error = TRUE]

\* publish_once: every unsent row of the batch is published or fails (ok is the set
\* of rows whose publish succeeds), then the commit, which may itself fail after
\* the messages went out
publish_once(ok, committed) ==
    LET batch == Unsent(outbox.rows)
    IN  /\ batch # {}
        /\ ok \subseteq batch
        /\ \A i \in batch \ ok : outbox.rows[i].attempts < MaxAttempts
        /\ outbox' = [outbox EXCEPT
                      !.published = outbox.published \cup ok,
                      !.rows = IF committed
                               THEN [i \in DOMAIN outbox.rows |->
                                        IF i \in batch THEN publish_result(outbox.rows[i], i \in ok)
                                        ELSE outbox.rows[i]]
                               ELSE outbox.rows]
        /\ UNCHANGED <<now, sess, regs, wallet, ledger, promote_stream, redis, http, worker, alloc_runs, closer, txns>>

\* ------------------------------------------------------------------ specifications
InitDb ==
    /\ now = BeforeDay
    /\ sess \in [capacity : 1..MaxCapacity, status : {"scheduled"}]
    /\ regs = <<>>
    /\ ledger = {}
    /\ promote_stream = 0

\* the keys of the session in redis; the consumer group of the promotion stream
\* exists once the promotion worker has discovered the session
InitRedis ==
    [idem |-> [uk \in Users \X IdemKeys |-> NULL],
     status |-> [r \in Procs |-> "none"],
     stream |-> <<>>, last_delivered |-> 0, backlog |-> 0,
     promote_group |-> TRUE,
     rl |-> [u \in Users |-> 0]]

\* no lock key, every replica between two scans
InitCloser == [lock |-> FALSE, pc |-> [r \in Replicas |-> "sleep"]]

InitWorkers ==
    /\ http = [p \in Procs |-> Idle]
    /\ worker = [pc |-> "read", msg |-> NULL]
    /\ alloc_runs = <<>>
    /\ txns = [p \in Procs |-> NoTxn]
    /\ outbox = [rows |-> <<>>, published |-> {}, events |-> FALSE, log |-> {}]
    /\ closer = InitCloser

InitIngress ==
    /\ redis = InitRedis
    /\ InitWorkers

\* the services called directly, one transaction at a time
Init ==
    /\ InitDb
    /\ wallet = [u \in Users |-> [posted_cents |-> 0, holds_cents |-> 0]]
    /\ InitIngress

\* a delivery of a registration message to the allocator
Register(u, guest_names) ==
    \* a rejected request returns ("rejected", None, None, []) and writes nothing
    /\ Allocate(u, guest_names).state # "rejected"
    /\ process_registration_request(u, 1 + Len(guest_names), guest_names)
    /\ UNCHANGED ingress

Next ==
    \/ \E d \in DepositInputs : Deposit(d[1], d[2], d[3])
    \/ \E u \in Users, g \in GuestInputs : Register(u, g)
    \/ PromotionWorker
    \/ \E id \in 1..MaxRegs, c \in Callers : cancel_registration(id, c[1], c[2])
    \/ \E id \in 1..MaxRegs, c \in Callers, g \in {<<>>, <<"a">>} :
            update_guest_list(id, c[1], c[2], g)
    \/ \E id \in 1..MaxRegs, c \in Callers, g \in Names \cup {Blank} :
            add_guest_registration(id, g, c[1], c[2])
    \/ \E a \in AdminInputs : admin_update_session(a[1], a[2])
    \/ SessionCloser
    \/ Tick

Spec == Init /\ [][Next]_vars

\* the registration endpoint and its worker, wallets already funded by a deposit
InitQueue ==
    /\ InitDb
    /\ wallet = [u \in Users |-> [posted_cents |-> 2 * Fee, holds_cents |-> 0]]
    /\ InitIngress

NextQueue ==
    \/ \E p \in Procs, u \in Users, k \in IdemKeys, g \in GuestInputs : Submit(p, u, k, g)
    \/ \E p \in Procs : Validate(p)
    \/ \E p \in Procs : IdemGet(p)
    \/ \E p \in Procs : IdemSet(p)
    \/ \E p \in Procs : StatusQueued(p)
    \/ \E p \in Procs : StreamAdd(p)
    \/ \E p \in Procs : BacklogIncr(p)
    \/ WorkerRead
    \/ WorkerProcess
    \/ WorkerMarkRejected

SpecQueue == InitQueue /\ [][NextQueue]_vars

\* the endpoint serving one request at a time
NextQueueSerial ==
    \/ \E u \in Users, k \in IdemKeys, g \in GuestInputs : Submit(1, u, k, g)
    \/ Validate(1)
    \/ IdemGet(1)
    \/ IdemSet(1)
    \/ StatusQueued(1)
    \/ StreamAdd(1)
    \/ BacklogIncr(1)
    \/ WorkerRead
    \/ WorkerProcess
    \/ WorkerMarkRejected

\* main_loop is "while True": the single worker (GROUP g1, one instance) keeps
\* reading, processing and handling its exceptions whenever it can
SpecQueueFair ==
    /\ InitQueue
    /\ [][NextQueueSerial]_vars
    /\ WF_vars(WorkerRead)
    /\ WF_vars(WorkerProcess)
    /\ WF_vars(WorkerMarkRejected)

\* one session with room for a whole group, wallets funded for four seats: the
\* allocator, guest adds on every row id, cancellations and the promotion worker
InitGuests ==
    /\ now = BeforeDay
    /\ sess = [capacity |-> GroupCapacity, status |-> "scheduled"]
    /\ regs = <<>>
    /\ wallet = [u \in Users |-> [posted_cents |-> MaxGroupRegs * Fee, holds_cents |-> 0]]
    /\ ledger = {}
    /\ promote_stream = 0
    /\ InitIngress

NextGuests ==
    \/ \E u \in Users, g \in GuestInputs : Register(u, g)
    \/ \E id \in 1..MaxGroupRegs, c \in Callers, g \in Names \cup {Blank} :
            add_guest_registration(id, g, c[1], c[2])
    \/ \E id \in 1..MaxGroupRegs, c \in Callers : cancel_registration(id, c[1], c[2])
    \/ PromotionWorker

SpecGuests == InitGuests /\ [][NextGuests]_vars

\* a freshly scheduled session whose promotion stream has no consumer group yet:
\* the promotion worker discovers scheduled sessions every DISCOVER_EVERY_SEC
\* seconds and keeps running ("while True")
InitPromote ==
    /\ InitDb
    /\ sess.capacity = 1
    /\ wallet = [u \in Users |-> [posted_cents |-> 2 * Fee, holds_cents |-> 0]]
    /\ redis = [InitRedis EXCEPT !.promote_group = FALSE]
    /\ InitWorkers

NextPromote ==
    \/ \E u \in Users, g \in GuestInputs : Register(u, g)
    \/ \E id \in 1..MaxRegs, c \in Callers : cancel_registration(id, c[1], c[2])
    \/ ensure_group
    \/ PromotionWorker

SpecPromote ==
    /\ InitPromote
    /\ [][NextPromote]_vars
    /\ WF_vars(ensure_group)
    /\ WF_vars(PromotionWorker)

\* the services that write outbox events, with the events of every committed
\* transaction kept; wallets already funded by a deposit
InitEvents ==
    /\ InitDb
    /\ wallet = [u \in Users |-> [posted_cents |-> 2 * Fee, holds_cents |-> 0]]
    /\ redis = InitRedis
    /\ http = [p \in Procs |-> Idle]
    /\ worker = [pc |-> "read", msg |-> NULL]
    /\ alloc_runs = <<>>
    /\ txns = [p \in Procs |-> NoTxn]
    /\ outbox = [rows |-> <<>>, published |-> {}, events |-> TRUE, log |-> {}]
    /\ closer = InitCloser

NextEvents ==
    \/ \E u \in Users, g \in GuestInputs : Register(u, g)
    \/ PromotionWorker
    \/ \E id \in 1..MaxRegs, c \in Callers : cancel_registration(id, c[1], c[2])
    \/ \E id \in 1..MaxRegs, c \in Callers, g \in Names \cup {Blank} :
            add_guest_registration(id, g, c[1], c[2])
    \/ \E a \in AdminInputs : admin_update_session(a[1], a[2])

SpecEvents == InitEvents /\ [][NextEvents]_vars

\* the session closer run on two replicas next to registrations and the clock
NextCloser ==
    \/ \E u \in Users, g \in GuestInputs : Register(u, g)
    \/ \E r \in Replicas : acquire_lock(r)
    \/ \E r \in Replicas : run_once(r)
    \/ LockExpires
    \/ Tick

SpecCloser == InitQueue /\ [][NextCloser]_vars

\* concurrent deposit requests against the ledger
NextLedger ==
    \/ \E p \in Procs, d \in DepositInputs : DepositBegin(p, d[1], d[2], d[3])
    \/ \E p \in Procs : DepositLookup(p)
    \/ \E p \in Procs : DepositLockWallet(p)
    \/ \E p \in Procs : DepositInsert(p)
    \/ \E p \in Procs : DepositUpdateWallet(p)
    \/ \E p \in Procs : DepositSelect(p)
    \/ \E p \in Procs : DepositCommit(p)

SpecLedger == Init /\ [][NextLedger]_vars

\* the outbox and its dispatcher; run_forever calls publish_once again after every
\* pass and every exception, so a pass that commits is taken again and again
NextOutbox ==
    \/ \E c \in Channels : add_outbox_event(c)
    \/ \E ok \in SUBSET (1..MaxEvents), committed \in BOOLEAN : publish_once(ok, committed)

SpecOutbox ==
    /\ Init
    /\ [][NextOutbox]_vars
    /\ WF_vars(\E ok \in SUBSET (1..MaxEvents) : publish_once(ok, TRUE))

\* ------------------------------------------------------------------ properties
ActiveHosts(u) ==
    {i \in DOMAIN regs : regs[i].host_user_id = u /\ regs[i].is_host /\ regs[i].state # "canceled"}

HasKey(prefix, id) == Existing(ledger, <<prefix, id>>) # {}

\* sum of the amounts of the ledger rows of user u whose kind is in kinds
LedgerSum(u, kinds) ==
    LET rows == {e \in ledger : e.user = u /\ e.kind \in kinds}
    IN  SumOver(rows, [e \in rows |-> e.amount])

\* C1: in every committed state the seats of the confirmed registrations of the
\* session sum to at most the session's capacity.
C1_ConfirmedWithinCapacity == ConfirmedSeats(regs) <= sess.capacity

\* the session is full after a promotion, with a row still waiting
C1_Witness ==
    /\ ConfirmedSeats(regs) = sess.capacity
    /\ Waitlisted(regs) # {}
    /\ \E i \in DOMAIN regs : regs[i].state = "confirmed" /\ HasKey("rel", i)

\* C2: in every committed state the waitlist_pos values of the waitlisted rows
\* are exactly 1..N, N the number of waitlisted rows (no gap, no duplicate, no NULL).
C2_WaitlistContiguous ==
    /\ {regs[i].waitlist_pos : i \in Waitlisted(regs)} = 1..Cardinality(Waitlisted(regs))
    /\ \A i, j \in Waitlisted(regs) : regs[i].waitlist_pos = regs[j].waitlist_pos => i = j

\* a waitlisted row was canceled and a row queued behind it is still waiting
C2_Witness ==
    \E i, j \in DOMAIN regs :
        /\ i < j
        /\ regs[i].state = "canceled" /\ HasKey("rel_cancel", i)
        /\ regs[j].state = "waitlisted" /\ HasKey("hold", j)

\* C3: after every committed transaction every wallet has holds_cents >= 0,
\* posted_cents >= 0 and posted_cents - holds_cents >= 0.
C3_WalletsNonNegative ==
    \A u \in Users :
        /\ wallet[u].holds_cents >= 0
        /\ wallet[u].posted_cents >= 0
        /\ Available(wallet, u) >= 0

\* ledger calls tried in every reachable state: keys the ledger may or may not hold
C4_Calls ==
    {Call(u, k.kind, k.amount, NULL, key) :
        u \in Users,
        k \in {[kind |-> "deposit_in", amount |-> 2 * Fee], [kind |-> "hold", amount |-> Fee],
               [kind |-> "fee_capture", amount |-> -Fee]},
        key \in {<<"dep", 1>>, <<"dep", 2>>, <<"cap", 1>>, <<"hold", 2>>}}

C5_OneActiveHost == \A u \in Users : Cardinality(ActiveHosts(u)) <= 1

\* a user registered again after cancelling an earlier host registration
C5_Witness ==
    \E i, j \in DOMAIN regs :
        /\ i < j
        /\ regs[i].host_user_id = regs[j].host_user_id
        /\ regs[i].is_host /\ regs[i].state = "canceled"
        /\ regs[j].is_host /\ regs[j].state # "canceled"

\* rows a step moves from waitlisted to confirmed
Promoted == {i \in DOMAIN regs : regs[i].state = "waitlisted" /\ regs'[i].state = "confirmed"}

Party(i) ==
    {j \in Waitlisted(regs) : regs[i].group_key # NULL /\ regs[j].group_key = regs[i].group_key}

\* C7: a party waitlisted on a full session is not promoted in part: a promotion
\* pass that finds fewer free seats than the party at the head of the waitlist
\* needs promotes no row at all.
C7_PartyNotPromotedInPart ==
    (sess.status = "scheduled" /\ Waitlisted(regs) # {}) =>
        LET h == HeadOfWaitlist(regs)
        IN  (regs[h].is_host /\ Cardinality(Party(h)) > Remaining(regs, sess.capacity))
                => promote_waitlist_fifo.promoted = <<>>

\* stream messages appended for user u under Idempotency-Key k
MessagesOf(u, k) ==
    {m \in DOMAIN redis.stream :
        redis.stream[m].user_id = u /\ redis.stream[m].idempotency_key = k}

\* allocator executions for the messages of user u under Idempotency-Key k
RunsOf(u, k) ==
    {r \in DOMAIN alloc_runs :
        \E m \in MessagesOf(u, k) : redis.stream[m].request_id = alloc_runs[r]}

\* C8: two submissions by the same user with the same Idempotency-Key, sequential
\* or concurrent, return the same request_id, append exactly one message to the
\* session's stream and cause exactly one allocator execution.
C8_SameKeySameRequest ==
    \A p, q \in Procs :
        (/\ p # q
         /\ http[p].pc = "202" /\ http[q].pc = "202"
         /\ http[p].user = http[q].user /\ http[p].key = http[q].key)
        => /\ http[p].request_id = http[q].request_id
           /\ Cardinality(MessagesOf(http[p].user, http[p].key)) = 1
           /\ Cardinality(RunsOf(http[p].user, http[p].key)) <= 1

\* the rows cancel_registration(id) cancels that are confirmed now
ConfirmedCanceledBy(id) ==
    {i \in DOMAIN regs : regs[i].state = "confirmed" /\ cancel_result(id).rs[i].state = "canceled"}

\* C9: cancelling a confirmed registration on the local start day before starts_at
\* returns and posts refund = total \div 2 and penalty = -(total - refund),
\* total = seats * fee_cents.
C9_SameDayHalfRefund ==
    now = SameDay =>
        \A id \in DOMAIN regs :
            (regs[id].state = "confirmed" /\ ConfirmedCanceledBy(id) = {id}) =>
                LET total  == regs[id].seats * Fee
                    refund == total \div 2
                    r      == cancel_result(id)
                    u      == regs[id].host_user_id
                IN  /\ r.refund = refund
                    /\ r.penalty = -(total - refund)
                    /\ r.L.w[u].posted_cents = wallet[u].posted_cents + refund - (total - refund)

\* the fee_capture row of registration i, if any
CaptureOf(i) == {e \in ledger : e.kind = "fee_capture" /\ e.reg = i}

\* C10: cancelling a confirmed registration before local midnight of the start day
\* gives refund = seats * fee_cents and penalty 0, and the posted balance is back
\* at its value before the registration's fee capture.
C10_FullRefundBeforeMidnight ==
    now = BeforeDay =>
        /\ \A id \in DOMAIN regs :
            regs[id].state = "confirmed" =>
                LET r  == cancel_result(id)
                    u  == regs[id].host_user_id
                    cs == ConfirmedCanceledBy(id)
                IN  /\ id \in cs
                    /\ r.refund = SumOver(cs, [i \in cs |-> regs[i].seats * Fee])
                    /\ r.penalty = 0
                    /\ r.L.w[u].posted_cents = wallet[u].posted_cents + r.refund
        /\ sess.status # "canceled" =>
            \A i \in DOMAIN regs :
                (regs[i].state = "canceled" /\ CaptureOf(i) # {}) =>
                    /\ ~HasKey("penalty_cancel", i)
                    /\ \E e \in Existing(ledger, <<"refund_cancel", i>>) :
                        /\ e.kind = "refund" /\ e.user = regs[i].host_user_id
                        /\ e.amount = regs[i].seats * Fee
                        /\ \A c \in CaptureOf(i) : c.amount + e.amount = 0

\* a confirmed registration was cancelled before local midnight and refunded
C10_Witness ==
    /\ now = BeforeDay
    /\ \E i \in DOMAIN regs :
        regs[i].state = "canceled" /\ CaptureOf(i) # {} /\ HasKey("refund_cancel", i)

\* C11: a cancellation of an active registration by its host or an admin at or
\* after starts_at returns too_late with refund 0 and penalty 0 and changes nothing:
\* no ledger row, the wallets and every registration row as they were.
C11_TooLateChangesNothing ==
    now >= Started =>
        \A id \in DOMAIN regs : \A c \in Callers :
            ((c[2] \/ regs[id].host_user_id = c[1]) /\ regs[id].state # "canceled") =>
                LET o == cancel_outcome(id, c[1], c[2])
                IN  /\ o.state = "too_late" /\ o.refund = 0 /\ o.penalty = 0
                    /\ ~o.committed
                    /\ o.L.l = ledger /\ o.L.w = wallet /\ o.rs = regs

\* the session has started with a confirmed row and a waitlisted row still active
C11_Witness ==
    /\ now = Started
    /\ \E i, j \in DOMAIN regs :
        /\ regs[i].state = "confirmed"
        /\ regs[j].state = "waitlisted" /\ regs[j].waitlist_pos # NULL
        /\ cancel_outcome(j, regs[j].host_user_id, FALSE).state = "too_late"

\* C12: the registration worker runs one allocator transaction at a time (a message
\* is delivered only after the run for the previous one is over) and allocates the
\* requests of the session in the order their messages were appended to its stream.
C12_SerialInStreamOrder ==
    /\ Len(alloc_runs) <= redis.last_delivered
    /\ redis.last_delivered <= Len(alloc_runs) + 1
    /\ redis.last_delivered <= Len(redis.stream)
    /\ worker.pc = "process" => worker.msg = Len(alloc_runs) + 1
    /\ \A r \in DOMAIN alloc_runs : alloc_runs[r] = redis.stream[r].request_id

\* two requests were allocated, the later submission's message first
C12_Witness ==
    /\ Len(alloc_runs) = 2
    /\ alloc_runs[1] > alloc_runs[2]
    /\ redis.stream[1].user_id # redis.stream[2].user_id

\* C13: in every committed state each wallet's posted_cents is the sum of the amounts
\* of the user's deposit_in, refund, fee_capture and penalty ledger rows, and its
\* holds_cents the sum of the user's hold and hold_release rows.
C13_WalletEqualsLedger ==
    \A u \in Users :
        /\ wallet[u].posted_cents = LedgerSum(u, {"deposit_in", "refund", "fee_capture", "penalty"})
        /\ wallet[u].holds_cents = LedgerSum(u, {"hold", "hold_release"})

\* ledger rows of the given kind written for registration i
RowsOf(kind, i) == {e \in ledger : e.kind = kind /\ e.reg = i}

\* C14: every hold row of a registration is matched by at most one hold_release row
\* of that registration, for the same user and the opposite amount, whichever
\* operation released it.
C14_HoldReleasedAtMostOnce ==
    \A i \in DOMAIN regs :
        /\ Cardinality(RowsOf("hold", i)) <= 1
        /\ Cardinality(RowsOf("hold_release", i)) <= Cardinality(RowsOf("hold", i))
        /\ \A h \in RowsOf("hold", i) : \A r \in RowsOf("hold_release", i) :
                r.amount = -h.amount /\ r.user = h.user

\* one hold was released by a promotion and another by an admin close
C14_Witness ==
    \E i, j \in DOMAIN regs :
        /\ HasKey("hold", i) /\ HasKey("rel", i)
        /\ HasKey("hold", j) /\ HasKey("release_close", j)

\* C15: the session's status changes only along scheduled->closed, closed->scheduled,
\* scheduled->canceled and closed->canceled; a PATCH asking for any other change is
\* rejected (rolled back, the session unchanged), and a canceled session stays canceled.
C15_StatusTransitions ==
    [][/\ sess'.status # sess.status =>
            /\ sess.status # "canceled"
            /\ <<sess.status, sess'.status>> \in
                  {<<"scheduled", "closed">>, <<"closed", "scheduled">>,
                   <<"scheduled", "canceled">>, <<"closed", "canceled">>}
       /\ \A st \in Statuses :
            (st # sess.status /\ (sess.status = "canceled" \/ <<sess.status, st>> \notin
                  {<<"scheduled", "closed">>, <<"closed", "scheduled">>,
                   <<"scheduled", "canceled">>, <<"closed", "canceled">>}))
            => admin_error(NoCapacity, st) = "InvalidTransition"]_vars

\* the session was closed with a waitlist, and later canceled with a confirmed row
C15_Witness ==
    /\ sess.status = "canceled"
    /\ \E i, j \in DOMAIN regs : HasKey("release_close", i) /\ HasKey("refund_sess_cancel", j)

\* C16: an admin capacity change to a value below the confirmed seats is rejected
\* (CapacityBelowConfirmed, rolled back: capacity, status, registrations and wallets
\* unchanged), and every capacity a step commits is at least the confirmed seats.
C16_CapacityNotBelowConfirmed ==
    [][/\ sess'.capacity # sess.capacity =>
            /\ sess'.capacity >= ConfirmedSeats(regs)
            /\ sess'.capacity >= ConfirmedSeats(regs')
       /\ \A c \in 0..MaxCapacity : \A st \in Statuses \cup {NoChange} :
            c < ConfirmedSeats(regs) => admin_error(c, st) = "CapacityBelowConfirmed"]_vars

\* two seats are confirmed and a PATCH to capacity 1 is refused
C16_Witness ==
    /\ ConfirmedSeats(regs) = 2
    /\ sess.capacity = 2
    /\ admin_error(1, NoChange) = "CapacityBelowConfirmed"

\* ledger rows a step adds for registration i
NewRowsOf(i) == {e \in ledger' \ ledger : e.reg = i}

\* C17: the step that sets the session to canceled gives every confirmed registration
\* one refund of seats * fee_cents and every waitlisted one a hold_release of
\* seats * fee_cents, ends all of them canceled, and a canceled session has no
\* confirmed or waitlisted registration.
C17_SessionCancelRefundsAll ==
    [][/\ (sess'.status = "canceled" /\ sess.status # "canceled") =>
            /\ DOMAIN regs' = DOMAIN regs
            /\ \A i \in DOMAIN regs :
                /\ regs'[i].state = "canceled"
                /\ regs[i].state = "confirmed" =>
                        NewRowsOf(i) = {LedgerRow(regs[i].host_user_id, "refund",
                                                  regs[i].seats * Fee, i, <<"refund_sess_cancel", i>>)}
                /\ regs[i].state = "waitlisted" =>
                        NewRowsOf(i) = {LedgerRow(regs[i].host_user_id, "hold_release",
                                                  -(regs[i].seats * Fee), i, <<"release_sess_cancel", i>>)}
                /\ regs[i].state = "canceled" => NewRowsOf(i) = {}
            /\ \A u \in Users :
                LET mine(state) == {i \in DOMAIN regs : regs[i].host_user_id = u /\ regs[i].state = state}
                    fees == [i \in DOMAIN regs |-> regs[i].seats * Fee]
                IN  /\ wallet'[u].posted_cents = wallet[u].posted_cents + SumOver(mine("confirmed"), fees)
                    /\ wallet'[u].holds_cents = wallet[u].holds_cents - SumOver(mine("waitlisted"), fees)
       /\ sess.status = "canceled" => \A i \in DOMAIN regs : regs[i].state = "canceled"]_vars

\* a session was canceled while it had a confirmed and a waitlisted registration
C17_Witness ==
    /\ sess.status = "canceled"
    /\ \E i, j \in DOMAIN regs :
        HasKey("refund_sess_cancel", i) /\ HasKey("release_sess_cancel", j)

\* C18: the step that closes a scheduled session (admin PATCH or auto-close) releases
\* the hold of every waitlisted registration, so that every user's holds drop to 0,
\* ends those rows canceled with waitlist_pos NULL, and leaves every confirmed
\* registration confirmed with its fee capture in place (no ledger row, posted unchanged).
C18_CloseReleasesWaitlist ==
    [][(sess'.status = "closed" /\ sess.status = "scheduled") =>
            /\ DOMAIN regs' = DOMAIN regs
            /\ \A i \in DOMAIN regs :
                /\ regs[i].state = "waitlisted" =>
                    /\ regs'[i].state = "canceled" /\ regs'[i].waitlist_pos = NULL
                    /\ \E e \in NewRowsOf(i) :
                        /\ NewRowsOf(i) = {e}
                        /\ e.kind = "hold_release" /\ e.user = regs[i].host_user_id
                        /\ e.amount = -(regs[i].seats * Fee)
                /\ regs[i].state # "waitlisted" => (regs'[i] = regs[i] /\ NewRowsOf(i) = {})
            /\ \A u \in Users :
                /\ wallet'[u].holds_cents = 0
                /\ wallet'[u].posted_cents = wallet[u].posted_cents]_vars

\* an admin close released one hold, an auto-close another, and a confirmed row kept its capture
C18_Witness ==
    /\ sess.status = "closed"
    /\ \E i, j, k \in DOMAIN regs :
        /\ HasKey("release_close", i) /\ HasKey("release_auto_close", j)
        /\ regs[k].state = "confirmed" /\ CaptureOf(k) # {}

\* C19: auto-close waits three hours: close_due_sessions closes a session only when
\* it is scheduled and its start is at least 3 hours in the past (a session that
\* started 2 hours ago stays scheduled).
C19_AutoCloseWaitsThreeHours ==
    [][close_due_sessions => (sess.status = "scheduled" /\ now >= Past3h)]_vars

\* C20: outbox delivery is at-least-once: every committed event is eventually marked
\* sent; a failed publish leaves sent_at NULL and increases attempts; a sent row
\* stays sent; and no event is marked sent without having been published.
C20_OutboxAtLeastOnce ==
    /\ \A i \in 1..MaxEvents : (i \in DOMAIN outbox.rows) ~> (i \in DOMAIN outbox.rows /\ outbox.rows[i].sent)
    /\ [](\A i \in DOMAIN outbox.rows : outbox.rows[i].sent => i \in outbox.published)
    /\ [][\A i \in DOMAIN outbox.rows :
            /\ outbox.rows[i].sent => outbox'.rows[i] = outbox.rows[i]
            /\ (~outbox.rows[i].sent /\ outbox'.rows[i] # outbox.rows[i]) =>
                /\ outbox'.rows[i].attempts = outbox.rows[i].attempts + 1
                /\ outbox'.rows[i].sent => i \in outbox'.published
                /\ outbox'.rows[i].sent <=> ~outbox'.rows[i].error]_vars

\* an event was marked sent after a failed attempt while another failed and waits for its retry
C20_Witness ==
    \E i, j \in DOMAIN outbox.rows :
        /\ outbox.rows[i].sent /\ outbox.rows[i].attempts = 2 /\ i \in outbox.published
        /\ ~outbox.rows[j].sent /\ outbox.rows[j].attempts = 1 /\ outbox.rows[j].error

\* C21: when processing of a stream message fails, the worker does not acknowledge
\* it and the same message is delivered to the worker again: a message whose
\* processing raised (the worker is in its except branch holding it) is later
\* handed to _process_msg once more.
C21_FailedMessageRedelivered ==
    \A m \in 1..MaxProcs :
        (worker.pc = "except" /\ worker.msg = m) ~> (worker.pc = "process" /\ worker.msg = m)

\* C22: in every committed state every registration in state canceled has
\* waitlist_pos NULL, whichever operation canceled it.
C22_CanceledHasNoPosition ==
    \A i \in DOMAIN regs : regs[i].state = "canceled" => regs[i].waitlist_pos = NULL

\* amounts of the new ledger rows of the given kind written by the step for the rows ids
NewAmounts(kind, ids) ==
    LET rows == {e \in ledger' \ ledger : e.kind = kind /\ e.reg \in ids}
    IN  SumOver(rows, [e \in rows |-> e.amount])

ActiveGuests(u) ==
    {i \in DOMAIN regs : regs[i].host_user_id = u /\ ~regs[i].is_host /\ regs[i].state # "canceled"}

\* C24: there are never more than two active guest registrations per host per
\* session, after any sequence of registrations with guests, guest adds on any
\* registration id of the group, and cancellations.
C24_AtMostTwoGuests == \A u \in Users : Cardinality(ActiveGuests(u)) <= 2

\* C25: a guest add confirms the new guest row immediately only when no waitlisted
\* registration exists and a seat is free; whenever any waitlisted row exists the new
\* row is waitlisted at max_pos + 1 with a hold, even if a seat is free. A step that
\* appends exactly one row, not a host row, is a guest add.
C25_GuestAddQueuesBehindWaitlist ==
    [][(Len(regs') = Len(regs) + 1 /\ ~regs'[Len(regs')].is_host) =>
        LET gid     == Len(regs')
            g       == regs'[gid]
            waiting == {i \in DOMAIN regs : regs[i].state = "waitlisted"}
            free    == sess.capacity - ConfirmedSeats(regs)
            max_pos == MaxOf({regs[i].waitlist_pos : i \in waiting})
        IN  /\ g.seats = 1 /\ g.state \in {"confirmed", "waitlisted"}
            /\ g.state = "confirmed" <=> (waiting = {} /\ free > 0)
            /\ g.state = "confirmed" =>
                /\ g.waitlist_pos = NULL
                /\ NewRowsOf(gid) =
                        {LedgerRow(g.host_user_id, "fee_capture", -Fee, gid, <<"cap:addguest", gid>>)}
            /\ g.state = "waitlisted" =>
                /\ g.waitlist_pos = max_pos + 1
                /\ NewRowsOf(gid) =
                        {LedgerRow(g.host_user_id, "hold", Fee, gid, <<"hold:addguest", gid>>)}
                /\ wallet'[g.host_user_id].holds_cents = wallet[g.host_user_id].holds_cents + Fee
            /\ \A i \in DOMAIN regs :
                    /\ regs'[i].state = regs[i].state
                    /\ regs'[i].waitlist_pos = regs[i].waitlist_pos]_vars

\* a guest was added behind a waiting row although a seat is free
C25_Witness ==
    /\ sess.status = "scheduled"
    /\ ConfirmedSeats(regs) < sess.capacity
    /\ \E g \in DOMAIN regs :
        /\ g = Len(regs) /\ HasKey("hold:addguest", g)
        /\ regs[g].state = "waitlisted" /\ regs[g].waitlist_pos = 2

\* C26: a registration is created confirmed or waitlisted; the only transitions are
\* waitlisted -> confirmed, confirmed -> canceled and waitlisted -> canceled; canceled
\* is terminal and a confirmed registration never returns to waitlisted. Rows are
\* never deleted.
C26_StateMachine ==
    [][/\ Len(regs') >= Len(regs)
       /\ \A i \in DOMAIN regs' \ DOMAIN regs : regs'[i].state \in {"confirmed", "waitlisted"}
       /\ \A i \in DOMAIN regs :
            \/ regs'[i].state = regs[i].state
            \/ <<regs[i].state, regs'[i].state>> \in
                    {<<"waitlisted", "confirmed">>, <<"confirmed", "canceled">>,
                     <<"waitlisted", "canceled">>}]_vars

\* a row went through waitlisted, confirmed and canceled, next to a row canceled
\* while it was waiting
C26_Witness ==
    \E i, j \in DOMAIN regs :
        /\ regs[i].state = "canceled" /\ HasKey("rel", i) /\ HasKey("refund_cancel", i)
        /\ regs[j].state = "canceled" /\ RowsOf("hold", j) # {} /\ RowsOf("fee_capture", j) = {}

\* messages whose allocator transaction committed a registration (one host row each)
Allocated == {i \in DOMAIN regs : regs[i].is_host}

\* C27: the per-session backlog counter is never negative under any interleaving of
\* ingress (append, then increment) and worker (process, ack, then decrement); it is
\* incremented once per enqueued request and decremented once per successfully
\* processed message: whenever no request is between its append and its increment
\* and the worker is between messages, the counter is the number of appended
\* messages minus the number of messages whose registration was committed.
C27_BacklogCountsUnprocessed ==
    /\ redis.backlog >= 0
    /\ (worker.pc = "read" /\ \A p \in Procs : http[p].pc # "incr") =>
            redis.backlog = Len(redis.stream) - Cardinality(Allocated)

\* C28: a request the allocator rejects (session not scheduled or already started,
\* the user already has an active host registration, or available funds below
\* fee * total seats) commits nothing: no registration row, no ledger entry, no
\* wallet change.
C28_RejectedCommitsNothing ==
    \A u \in Users : \A g \in GuestInputs :
        LET total == 1 + Len(NormalizeGuests(g))
            a     == Allocate(u, g)
            t     == AllocTables(a)
        IN  (\/ sess.status # "scheduled"
             \/ now >= Started
             \/ ActiveHosts(u) # {}
             \/ wallet[u].posted_cents - wallet[u].holds_cents < Fee * total) =>
                /\ a.state = "rejected" /\ a.rows = <<>> /\ a.host = NULL /\ a.pos = NULL
                /\ t.rs = regs /\ t.w = wallet /\ t.l = ledger

\* a scheduled session where one user's request is rejected for the host registration
\* they hold and another user's party of three for lack of funds
C28_Witness ==
    /\ sess.status = "scheduled" /\ now < Started
    /\ \E u, v \in Users :
        /\ ActiveHosts(u) # {} /\ Available(wallet, u) >= Fee
        /\ Allocate(u, <<>>).state = "rejected"
        /\ ActiveHosts(v) = {} /\ Available(wallet, v) >= Fee
        /\ Allocate(v, <<"a", "b", "a">>).state = "rejected"

\* a transaction whose insert hit the unique violation: it holds no row of its
\* own while the row of its key is committed, and it is past the insert
LostInsert(p) ==
    /\ txns[p].pc \in {"select", "commit"}
    /\ txns[p].row = {}
    /\ Existing(ledger, txns[p].key) # {}

\* C29: when two transactions concurrently apply a ledger entry with the same
\* idempotency_key and the later insert hits the unique violation, the loser
\* returns the existing row and applies no wallet delta, so the wallet is changed
\* exactly once: a transaction that lost its insert carries no wallet update to
\* its commit.
C29_LoserAppliesNoDelta ==
    \A p \in Procs : LostInsert(p) => txns[p].delta = 0

PromotionSettled ==
    \/ \A i \in DOMAIN regs : regs[i].state # "waitlisted"
    \/ \A i \in DOMAIN regs :
            (regs[i].state = "waitlisted" /\ regs[i].waitlist_pos = 1) =>
                regs[i].seats > sess.capacity - ConfirmedSeats(regs)

\* C31: whenever a confirmed seat is freed or capacity is raised on a scheduled
\* session, a promotion pass eventually runs for that session: a scheduled session
\* with a free seat for the head of its waitlist does not stay that way, it comes
\* to a state where the waitlist is empty or the head row's seats exceed the
\* remaining capacity.
C31_PromotionEventuallyRuns ==
    (sess.status = "scheduled" /\ ~PromotionSettled) ~> (sess.status # "scheduled" \/ PromotionSettled)

\* C32: cancelling a registration that is already canceled is a no-op: it returns
\* state canceled with refund 0 and penalty 0, adds no ledger entry and leaves the
\* wallets and the waitlist positions unchanged; so a registration's refund, penalty
\* or hold release of a cancellation is applied only once.
C32_CancelCanceledIsNoOp ==
    /\ \A id \in DOMAIN regs : \A c \in Callers :
        (regs[id].state = "canceled" /\ (c[2] \/ regs[id].host_user_id = c[1])) =>
            LET o == cancel_outcome(id, c[1], c[2])
            IN  /\ o.state = "canceled" /\ o.refund = 0 /\ o.penalty = 0
                /\ ~o.committed
                /\ o.L.l = ledger /\ o.L.w = wallet /\ o.rs = regs
    /\ \A id \in DOMAIN regs : \A prefix \in {"refund_cancel", "penalty_cancel", "rel_cancel"} :
        Cardinality({e \in ledger : e.key = <<prefix, id>>}) <= 1

\* a refunded cancellation lies behind and a row is still waiting: the repeated
\* cancel answers canceled with nothing to pay
C32_Witness ==
    \E i, j \in DOMAIN regs :
        /\ regs[i].state = "canceled" /\ HasKey("refund_cancel", i)
        /\ regs[j].state = "waitlisted" /\ regs[j].waitlist_pos = 1
        /\ now < Started
        /\ cancel_outcome(i, regs[i].host_user_id, FALSE).state = "canceled"

\* the events a step adds to the outbox for registration row i
NewEvents(i) == {e \in outbox'.log \ outbox.log : e.reg = i}

C40_SessionCanceledOnlyOnCancel ==
    [][(\E e \in outbox'.log \ outbox.log : e.type = "session_canceled")
            => sess'.status = "canceled"]_vars

\* C34: waitlist FIFO holds against later arrivals: a step of the allocator that
\* creates rows while the session already has waitlisted rows creates no confirmed
\* row, also when a seat has been freed and the promotion pass has not run yet.
C34_NoSeatAheadOfWaitlist ==
    [][(Waitlisted(regs) # {} /\ Len(regs') > Len(regs))
            => \A i \in (DOMAIN regs') \ (DOMAIN regs) : regs'[i].state # "confirmed"]_vars

\* C35: at any time at most one session-closer replica is executing the auto-close
\* scan: no second replica acquires the lock key while the first is still inside
\* the scan.
C35_OneReplicaScans == Cardinality({r \in Replicas : closer.pc[r] = "scan"}) <= 1

\* C36: cancelling a guest row (is_host = false) cancels only that row: in every
\* reachable state, also after a guest edit has replaced or emptied the row's names,
\* a cancellation of a guest row that commits leaves the state of every other row
\* as it was and writes ledger entries for that row only.
C36_GuestCancelIsolated ==
    \A id \in DOMAIN regs : \A c \in Callers :
        LET o == cancel_outcome(id, c[1], c[2])
        IN  (~regs[id].is_host /\ o.committed) =>
                /\ \A j \in (DOMAIN regs) \ {id} : o.rs[j].state = regs[j].state
                /\ \A e \in o.L.l \ ledger : e.reg = id

\* C37: in every committed state every confirmed or waitlisted guest row
\* (is_host = false) has a confirmed or waitlisted host row with the same group_key,
\* after any sequence of allocations, guest adds, promotions and cancellations.
C37_GuestHasActiveHost ==
    \A i \in DOMAIN regs :
        (~regs[i].is_host /\ regs[i].state # "canceled") =>
            \E j \in DOMAIN regs :
                /\ regs[j].is_host
                /\ regs[j].state # "canceled"
                /\ regs[j].group_key # NULL
                /\ regs[j].group_key = regs[i].group_key

\* C38: in every committed state each user's wallet.holds_cents equals the sum of
\* seats * fee_cents over that user's currently waitlisted registrations: a hold
\* exists exactly while its registration is waitlisted.
C38_HoldsMatchWaitlist ==
    \A u \in Users :
        wallet[u].holds_cents =
            SumOver({i \in Waitlisted(regs) : regs[i].host_user_id = u},
                    [i \in DOMAIN regs |-> regs[i].seats * Fee])

\* a user holds the fee for the one row that is waitlisted now, next to a row whose
\* hold was released by its promotion
C38_Witness ==
    \E i, j \in DOMAIN regs :
        /\ regs[i].state = "waitlisted"
        /\ wallet[regs[i].host_user_id].holds_cents = Fee
        /\ regs[j].state = "confirmed"
        /\ Existing(ledger, <<"rel", j>>) # {}

\* C39: the request status agrees with the database: whenever a request's status is
\* rejected, no confirmed or waitlisted registration created by that request exists.
\* The worker is the only writer of registrations here and run r of the allocator
\* serves message r, so when the worker is between messages and every request of a
\* user that was run has status rejected, the user has no active registration.
C39_RejectedHasNoRegistration ==
    \A u \in Users :
        (/\ worker.pc = "read"
         /\ \A r \in DOMAIN alloc_runs :
                redis.stream[r].user_id = u => redis.status[alloc_runs[r]] = "rejected")
        => \A i \in DOMAIN regs : regs[i].host_user_id = u => regs[i].state = "canceled"
====
